---- MODULE Spec2Model ----
(***************************************************************************)
(* A model of gzmo's keyed rating-table lookup (RatingTable.prime,         *)
(* _lookup, _eval_impl, _eval_reindex, _eval_match) and of the rating      *)
(* plan's step scheduler.                                                  *)
(*                                                                         *)
(* The table modelled has the two kinds of key dimension the code knows:   *)
(* a discrete input `credit_tier` (raw column `_credit_tier`) and an       *)
(* interval input `age` (raw columns `_age_left`, `_age_right`), and one   *)
(* output `factor` (raw column `factor_`).                                 *)
(***************************************************************************)
EXTENDS Integers, Sequences, FiniteSets, TLC

\* ------------------------------------------------------------------ bounds
MaxRows == 2
MaxBatch == 2
MaxSteps == 3
NumWorkers == 2
MaxQueries == 2
MaxFrameRows == 2
MaxDepth == 2
MaxChain == 3
MaxYield == 2

\* ------------------------------------------------------------ value domains
\* Numeric values a query or a finite interval end can take.
Ages == {1, 2}
\* -np.inf and np.inf, below and above every value of Ages.
NegInf == 0
PosInf == 3
\* The '*' of a raw interval column (a number-typed column in this model).
StarCell == -1
\* The values of the raw discrete column, and the values a caller passes.
StoredTiers == {"A", "*"}
QueryTiers == {"A", "B"}
\* Each row's output, by its position in the raw table: rows stay
\* distinguishable by what they return.
FactorOf(i) == <<"f1", "f2", "f3", "f4">>[i]

None == "None"
NaN == "NaN"
IsNa(v) == v \in {None, NaN}

Range(s) == {s[i] : i \in DOMAIN s}

\* --------------------------------------------------------------- the state
VARIABLES
    df,                 \* the raw dataframe handed to RatingTable.__init__
    status,             \* "new", "primed" or "error" (the constructor raised)
    table,              \* self after prime(): rows with their index and outputs
    wildcard_markers,   \* self._wildcard_markers
    op,                 \* the last call: "none", "lookup" or "batch"
    passed_inputs,      \* _lookup's passed_inputs of the last single lookup
    matches,            \* _lookup's per-input match masks
    result,             \* what the last single lookup returned
    input_table,        \* the batch handed to _eval_impl
    path,               \* which path served the batch: "reindex" or "match"
    frame,              \* what the last batch evaluate returned
    last_call,          \* how the last single evaluate was called
    \* the rating plan and one run of it
    plan,               \* step -> the steps that produce one of its inputs
    raising,            \* the steps whose transformation raises
    mode,               \* "sequential" or "parallel"
    sched,              \* "idle", "active", "draining", "complete", "failed",
                        \* "cycle_error"
    results,            \* the results tier: step -> value ({} while absent)
    writes,             \* step -> how often its name was written in results
    dispatched,         \* the steps handed out for evaluation
    done,               \* the steps marked done in the graph
    task_queue,         \* orchestrator -> workers
    results_queue,      \* workers -> orchestrator
    running,            \* the tasks the workers are evaluating
    exited,             \* how many workers have taken their sentinel
    error,              \* the step whose failure the run caught, or NoStep
    run_outcome,        \* what run() gave its caller: "none", "returned", "raised"
    previous,           \* the session of the run before this one, if any
    \* a FancyDict holding the tiers of a session
    tiers,              \* its items in insertion order: <<[key, items], ...>>
    got,                \* the last get: [key, value], or <<>> before any
    \* an interpolated table
    source,             \* the table it is built from: [points, wildcard]
    istatus,            \* "new", "built" or "error"
    queries,            \* the query values of the last evaluate
    interpolated,       \* its outputs, one per query, as fractions
    \* a SearchableDict of dataframes
    given,              \* the dataframes handed to the constructor
    book,               \* its items in insertion order: <<[key, frame], ...>>
    bstatus,            \* "new", "built", or the message of the exception
    joinable_indices,   \* self.joinable_indices
    unique_indexed,     \* the items as set_unique_indices left them last
    fetched,            \* the last get: [key, how, value], or <<>>
    \* an AccessLogger and the dry run that holds it
    configured,         \* the depth the root logger was built with
    accessed,           \* self.accessed: the set of paths recorded
    held,               \* the logger the dry run holds: [root, depth]
    chain,              \* the keys it accessed from the root logger to get it
    returned,           \* what the last operation gave back
    probe_op,           \* the last operation: [kind, ...]
    looping,            \* "no", or "iterating" inside a for loop over `held`
    yielded             \* the items the loop was given so far, modulo MaxYield + 1

tvars == <<df, status, table, wildcard_markers, op, passed_inputs, matches,
           result, input_table, path, frame, last_call>>
svars == <<plan, raising, mode, sched, results, writes, dispatched, done, task_queue,
           results_queue, running, exited, error, run_outcome, previous>>
fvars == <<tiers, got>>
ivars == <<source, istatus, queries, interpolated>>
bvars == <<given, book, bstatus, joinable_indices, unique_indexed, fetched>>
pvars == <<configured, accessed, held, chain, returned, probe_op, looping, yielded>>
dvars == <<fvars, ivars, bvars, pvars>>
vars == <<tvars, svars, dvars>>

\* ------------------------------------------------------- RatingTable.prime
\* The inputs follow the raw columns: `_credit_tier` alone, or `_credit_tier`
\* with `_age_left` and `_age_right`.
inputs ==
    IF df # <<>> /\ "age_left" \in DOMAIN df[1]
    THEN <<"credit_tier", "age">>
    ELSE <<"credit_tier">>
outputs == <<"factor">>
interval_inputs == {"age"} \cap Range(inputs)
wildcard_characters == {"*"}

\* self[c].replace('*', -np.inf) / self[c].replace('*', np.inf)
Replace(cell, value) == IF cell = StarCell THEN value ELSE cell

Interval(l, r) == [left |-> l, right |-> r]

\* pd.IntervalIndex.from_arrays raises when a left end exceeds its right end.
FromArraysRaises(raw) ==
    /\ interval_inputs # {}
    /\ \E i \in 1..Len(raw) :
          Replace(raw[i].age_left, NegInf) > Replace(raw[i].age_right, PosInf)

\* The new index (one level per input) together with the kept output columns.
NewIndex(raw) ==
    [i \in 1..Len(raw) |->
        IF interval_inputs # {}
        THEN [credit_tier |-> raw[i].credit_tier,
              age |-> Interval(Replace(raw[i].age_left, NegInf),
                               Replace(raw[i].age_right, PosInf)),
              factor |-> raw[i].factor]
        ELSE [credit_tier |-> raw[i].credit_tier,
              factor |-> raw[i].factor]]

\* The marker of one cell: isin([Interval(-inf, inf, closed = 'both'), '*']).
IsWildcardCell(row, name) ==
    IF name \in interval_inputs
    THEN row[name] = Interval(NegInf, PosInf)
    ELSE row[name] \in wildcard_characters

\* self.index.to_frame().isin(wildcard_characters).all(axis = 1)
WildcardMarkers(rows) ==
    [i \in 1..Len(rows) |-> \A name \in Range(inputs) : IsWildcardCell(rows[i], name)]

\* ------------------------------------------------------ RatingTable._lookup
\* An index built without closed = 'both' is closed on the right only.
ContainsRightClosed(iv, x) == iv.left < x /\ x <= iv.right

\* pd.IntervalIndex.contains on an index closed on both sides.
Contains(iv, x) == iv.left <= x /\ x <= iv.right

\* One input's mask over the rows of lookup_table.
Matched(lookup_table, input_name, passed_input) ==
    [i \in 1..Len(lookup_table) |->
        IF input_name \in interval_inputs
        THEN Contains(lookup_table[i][input_name], passed_input)
        ELSE lookup_table[i][input_name] \in (wildcard_characters \cup {passed_input})]

Matches(lookup_table, passed) ==
    [name \in Range(inputs) |-> Matched(lookup_table, name, passed[name])]

\* np.all(matches, axis = 0)
MatchingRowsFilter(lookup_table, passed) ==
    [i \in 1..Len(lookup_table) |->
        \A name \in Range(inputs) : Matches(lookup_table, passed)[name][i]]

\* lookup_table.loc[mask]: the rows the mask keeps, in the table's order.
RECURSIVE Loc(_, _)
Loc(rows, mask) ==
    IF Len(rows) = 0 THEN <<>>
    ELSE (IF mask[1] THEN <<rows[1]>> ELSE <<>>)
         \o Loc(Tail(rows), Tail(mask))

\* matching_rows.iloc[-1] in place of matching_rows.iloc[0].
LastRow(matching_rows) == matching_rows[Len(matching_rows)]

\* The row _lookup returns among the matching rows.
FirstRow(matching_rows) == matching_rows[1]

Lookup(lookup_table, passed) ==
    LET matching_rows == Loc(lookup_table, MatchingRowsFilter(lookup_table, passed))
    IN  IF Len(matching_rows) = 0
        THEN [k \in Range(inputs) |-> None]
        ELSE [k \in Range(outputs) |-> FirstRow(matching_rows)[k]]

\* ------------------------------------------------------------------ Init
\* No session dict is involved.
NoSession ==
    /\ tiers = <<>>
    /\ got = <<>>

\* No interpolated table is involved.
NoInterpolation ==
    /\ source = <<>>
    /\ istatus = "none"
    /\ queries = <<>>
    /\ interpolated = <<>>

\* No SearchableDict is involved.
NoBook ==
    /\ given = <<>>
    /\ book = <<>>
    /\ bstatus = "none"
    /\ joinable_indices = FALSE
    /\ unique_indexed = <<>>
    /\ fetched = <<>>

\* No logger is involved.
NoProbe ==
    /\ configured = 0
    /\ accessed = {}
    /\ held = <<>>
    /\ chain = <<>>
    /\ returned = "none"
    /\ probe_op = <<>>
    /\ looping = "no"
    /\ yielded = 0

NoDicts == NoSession /\ NoInterpolation /\ NoBook /\ NoProbe

\* No rating plan is involved in a behaviour of the table.
NoPlan ==
    /\ plan = <<>>
    /\ raising = {}
    /\ mode = "none"
    /\ sched = "none"
    /\ results = <<>>
    /\ writes = <<>>
    /\ dispatched = {}
    /\ done = {}
    /\ task_queue = <<>>
    /\ results_queue = <<>>
    /\ running = {}
    /\ exited = 0
    /\ error = 0
    /\ run_outcome = "none"
    /\ previous = <<>>

RawRows ==
    [credit_tier : StoredTiers,
     age_left : Ages \cup {StarCell},
     age_right : Ages \cup {StarCell}]

\* The raw rows of a table whose only input is the discrete one.
RawRowsDiscrete == [credit_tier : StoredTiers \cup QueryTiers]

Init ==
    /\ \E n \in 1..MaxRows :
         \/ \E keys \in [1..n -> RawRows] :
               df = [i \in 1..n |->
                       [credit_tier |-> keys[i].credit_tier,
                        age_left |-> keys[i].age_left,
                        age_right |-> keys[i].age_right,
                        factor |-> FactorOf(i)]]
         \/ \E keys \in [1..n -> RawRowsDiscrete] :
               df = [i \in 1..n |->
                       [credit_tier |-> keys[i].credit_tier,
                        factor |-> FactorOf(i)]]
    /\ status = "new"
    /\ table = <<>>
    /\ wildcard_markers = <<>>
    /\ op = "none"
    /\ passed_inputs = <<>>
    /\ matches = <<>>
    /\ result = <<>>
    /\ input_table = <<>>
    /\ path = "none"
    /\ frame = [columns |-> {}, rows |-> <<>>]
    /\ last_call = <<>>
    /\ NoPlan
    /\ NoDicts

\* RatingTable.__init__: prime() formats the table or raises.
Prime ==
    /\ status = "new"
    /\ IF FromArraysRaises(df)
       THEN /\ status' = "error"
            /\ UNCHANGED <<table, wildcard_markers>>
       ELSE /\ status' = "primed"
            /\ table' = NewIndex(df)
            /\ wildcard_markers' = WildcardMarkers(NewIndex(df))
    /\ UNCHANGED <<df, op, passed_inputs, matches, result, input_table, path, frame,
                   last_call>>
    /\ UNCHANGED <<svars, dvars>>

\* --------------------------------------------- DataFrame helpers (pandas)
\* pd.DataFrame.from_records(records, index = index): one row per record,
\* the columns are the keys of the records, a missing key reads NaN.
FromRecords(records, index) ==
    LET columns == UNION {DOMAIN records[i] : i \in 1..Len(records)}
    IN  [columns |-> columns,
         rows |-> [i \in 1..Len(records) |->
                     [idx |-> index[i],
                      rec |-> [c \in columns |->
                                 IF c \in DOMAIN records[i]
                                 THEN records[i][c] ELSE NaN]]]]

\* frame.isna().all(axis = 1) for one row.
IsNaRow(row) == \A c \in DOMAIN row.rec : IsNa(row.rec[c])

Index(rows) == [i \in 1..Len(rows) |-> rows[i].idx]

\* res.loc[labels]: for each label in turn, every row carrying it.
RECURSIVE LocLabels(_, _)
LocLabels(rows, labels) ==
    IF Len(labels) = 0 THEN <<>>
    ELSE SelectSeq(rows, LAMBDA r : r.idx = labels[1])
         \o LocLabels(rows, Tail(labels))

\* pd.concat([res_nonwildcard, res_wildcard]): the frames' rows one after
\* the other (the alternative kept as a comment beside fillna).
ConcatRows(res_nonwildcard, res_wildcard) ==
    [columns |-> res_nonwildcard.columns \cup res_wildcard.columns,
     rows |-> [i \in 1..Len(res_nonwildcard.rows) |->
                 [idx |-> res_nonwildcard.rows[i].idx,
                  rec |-> [c \in res_nonwildcard.columns \cup res_wildcard.columns |->
                             IF c \in res_nonwildcard.columns
                             THEN res_nonwildcard.rows[i].rec[c] ELSE NaN]]]
              \o [i \in 1..Len(res_wildcard.rows) |->
                 [idx |-> res_wildcard.rows[i].idx,
                  rec |-> [c \in res_nonwildcard.columns \cup res_wildcard.columns |->
                             IF c \in res_wildcard.columns
                             THEN res_wildcard.rows[i].rec[c] ELSE NaN]]]]

\* res_nonwildcard.fillna(res_wildcard): a null cell takes the value the other
\* frame holds under the same label and column; rows and columns stay.
FillNa(res_nonwildcard, res_wildcard) ==
    [columns |-> res_nonwildcard.columns,
     rows |-> [i \in 1..Len(res_nonwildcard.rows) |->
        LET r == res_nonwildcard.rows[i]
            same == {j \in 1..Len(res_wildcard.rows) :
                        res_wildcard.rows[j].idx = r.idx}
        IN  [idx |-> r.idx,
             rec |-> [c \in res_nonwildcard.columns |->
                        IF IsNa(r.rec[c]) /\ c \in res_wildcard.columns /\ same # {}
                        THEN res_wildcard.rows[CHOOSE j \in same : TRUE].rec[c]
                        ELSE r.rec[c]]]]]

\* ------------------------------------------------ RatingTable._eval_reindex
Key(row) == [name \in Range(inputs) |-> row[name]]

HasDuplicateKeys(lookup_table) ==
    \E i, j \in 1..Len(lookup_table) :
        i < j /\ Key(lookup_table[i]) = Key(lookup_table[j])

\* The (used) levels of one input of the index.
Levels(lookup_table, name) == {lookup_table[i][name] : i \in 1..Len(lookup_table)}

\* IntervalIndex.is_overlapping, intervals closed on both sides.
IsOverlapping(lookup_table) ==
    \E name \in interval_inputs :
        \E a, b \in Levels(lookup_table, name) :
            a # b /\ a.left <= b.right /\ b.left <= a.right

\* Some passed value lies in more than one interval of a level.
IsAmbiguous(passed_rows, lookup_table) ==
    \E k \in 1..Len(passed_rows) : \E name \in interval_inputs :
        Cardinality({iv \in Levels(lookup_table, name) :
                        Contains(iv, passed_rows[k][name])}) > 1

\* Whether lookup_table.reindex(index = inputs) may raise: it does on an index
\* with duplicate keys and on a value that several intervals of a level hold;
\* on a level that merely overlaps the pandas version decides.
ReindexOutcomes(passed_rows, lookup_table) ==
    IF HasDuplicateKeys(lookup_table) \/ IsAmbiguous(passed_rows, lookup_table)
    THEN {"raise"}
    ELSE IF IsOverlapping(lookup_table) THEN {"raise", "ok"} ELSE {"ok"}

\* One reindexed row: the outputs under the key, or NaN without one.  A
\* discrete level is met by equality, an interval level by containment.
Reindexed(lookup_table, passed) ==
    LET hits == {i \in 1..Len(lookup_table) :
                    \A name \in Range(inputs) :
                        IF name \in interval_inputs
                        THEN Contains(lookup_table[i][name], passed[name])
                        ELSE lookup_table[i][name] = passed[name]}
    IN  [c \in Range(outputs) |->
            IF hits = {} THEN NaN
            ELSE lookup_table[CHOOSE i \in hits : \A j \in hits : i <= j][c]]

EvalReindex(passed_rows, lookup_table) ==
    [columns |-> Range(outputs),
     rows |-> [k \in 1..Len(passed_rows) |->
                 [idx |-> passed_rows[k].idx,
                  rec |-> Reindexed(lookup_table, passed_rows[k])]]]

\* -------------------------------------------------- RatingTable._eval_match
\* A row-by-row matching that stops after the first input row.
EvalMatchHead(passed_rows, lookup_table) ==
    FromRecords([k \in 1..Len(passed_rows) |->
                    IF k = 1 THEN Lookup(lookup_table, passed_rows[k])
                    ELSE [c \in Range(outputs) |-> NaN]],
                Index(passed_rows))

\* input_table.apply(lambda row: self._lookup(lookup_table, **row), axis = 1)
\* gathered by from_records under the input's index.
EvalMatch(passed_rows, lookup_table) ==
    FromRecords([k \in 1..Len(passed_rows) |-> Lookup(lookup_table, passed_rows[k])],
                Index(passed_rows))

\* --------------------------------------------------- RatingTable._eval_impl
Not(mask) == [i \in 1..Len(mask) |-> ~mask[i]]

LookupTableNonwildcard == Loc(table, Not(wildcard_markers))
LookupTableWildcard == Loc(table, wildcard_markers)

EvalImpl(passed_rows, outcome) ==
    IF outcome = "raise"
    THEN [path |-> "match", frame |-> EvalMatch(passed_rows, table)]
    ELSE LET res_nonwildcard == EvalReindex(passed_rows, LookupTableNonwildcard)
             isna == [k \in 1..Len(passed_rows) |-> IsNaRow(res_nonwildcard.rows[k])]
             to_lookup == Loc(passed_rows, isna)
             res_wildcard == EvalMatch(to_lookup, LookupTableWildcard)
             res == FillNa(res_nonwildcard, res_wildcard)
         IN  [path |-> "reindex",
              frame |-> [columns |-> res.columns,
                         rows |-> LocLabels(res.rows, Index(passed_rows))]]

\* The bundles a caller may pass, to a table of either layout.
AllQueries == [credit_tier : QueryTiers, age : Ages] \cup [credit_tier : QueryTiers]

Queries == {q \in AllQueries : DOMAIN q = Range(inputs)}

\* How evaluate is called with one bundle: evaluate(v1, ...) with the first
\* n values, evaluate({...}) or evaluate(name = value, ...).
Shapes == {"positional", "dict", "kwargs"}
Calls == [shape : Shapes, bundle : AllQueries, n : 1..2]

\* The session as a value met by the index: an object equal to no key.
SessionObject == "<session>"

\* *args and **kwargs as evaluate receives them.
Args(call) ==
    CASE call.shape = "positional" -> [i \in 1..call.n |-> call.bundle[inputs[i]]]
      [] call.shape = "dict" -> <<call.bundle>>
      [] call.shape = "session" -> <<SessionObject>>
      [] OTHER -> <<>>

Kwargs(call) == IF call.shape = "kwargs" THEN call.bundle ELSE <<>>

\* The session handed to a table step, by the names it can resolve.
Sessions == [names : SUBSET {"credit_tier", "age"}]

\* session.get(self.inputs): SearchableDict.get raises AttributeError for a
\* name found in none of its items.
GetRaises(session) == ~(Range(inputs) \subseteq session.names)

\* An exception leaving the call.
Raised(e) == [error |-> e]

\* _lookup that reads the keyword arguments whatever it was passed.
PassedKwargs(args, kwargs) == kwargs

\* _lookup's passed_inputs: zip(self.inputs, args), else the kwargs.
PassedInputs(args, kwargs) ==
    IF Len(args) > 0
    THEN [name \in {inputs[i] : i \in 1..(IF Len(args) < Len(inputs)
                                          THEN Len(args) ELSE Len(inputs))} |->
            args[CHOOSE i \in 1..Len(inputs) : inputs[i] = name]]
    ELSE kwargs

\* Whether Index.isin raises on a list holding an unhashable object (the
\* session): the pandas build decides. It never raises on a key value.
IsinOutcomes == {"raise", "ok"}

\* _lookup(*args, **kwargs) on the table itself. The loop reads
\* passed_inputs[input_name] for every input: isin meets the session at the
\* first input, a missing name is a KeyError.
LookupCall(args, kwargs, isin) ==
    LET passed == PassedInputs(args, kwargs)
    IN  IF isin = "raise"
        THEN Raised("TypeError")
        ELSE IF ~(Range(inputs) \subseteq DOMAIN passed)
        THEN Raised("KeyError")
        ELSE Lookup(table, passed)

\* evaluate(*args, **kwargs) with one bundle, or with a session that cannot
\* resolve the inputs: the bare except sends the call on to _lookup(*args).
evaluate(call, isin) ==
    IF Len(Args(call)) > 0
    THEN IF call.shape = "dict"
         THEN LookupCall(<<>>, Args(call)[1], isin)
         ELSE LookupCall(Args(call), Kwargs(call), isin)
    ELSE LookupCall(<<>>, Kwargs(call), isin)

\* evaluate(dict), evaluate(**kwargs), evaluate(value, ...): one bundle.
\* No call assigns to the table, so a behaviour is a construction followed
\* by one call: a second call would start from the same table.
EvaluateOne(call) ==
    /\ status = "primed"
    /\ op = "none"
    /\ DOMAIN call.bundle = Range(inputs)
    /\ call.n <= Len(inputs)
    /\ call.shape # "positional" => call.n = Len(inputs)
    /\ op' = IF call.n = Len(inputs) THEN "lookup" ELSE "lookup_partial"
    /\ last_call' = call
    /\ LET passed == IF call.shape = "dict"
                     THEN PassedInputs(<<>>, Args(call)[1])
                     ELSE PassedInputs(Args(call), Kwargs(call))
       IN  /\ passed_inputs' = passed
           /\ matches' = IF Range(inputs) \subseteq DOMAIN passed
                         THEN Matches(table, passed) ELSE <<>>
    /\ result' = evaluate(call, "ok")
    /\ UNCHANGED <<df, status, table, wildcard_markers, input_table, path, frame>>
    /\ UNCHANGED <<svars, dvars>>

\* evaluate(session) when the session cannot resolve every input.
EvaluateUnresolved(session) ==
    /\ status = "primed"
    /\ op = "none"
    /\ GetRaises(session)
    /\ op' = "unresolved"
    /\ last_call' = [shape |-> "session", session |-> session]
    /\ passed_inputs' = <<>>
    /\ matches' = <<>>
    /\ \E isin \in IsinOutcomes :
          result' = evaluate([shape |-> "session", session |-> session], isin)
    /\ UNCHANGED <<df, status, table, wildcard_markers, input_table, path, frame>>
    /\ UNCHANGED <<svars, dvars>>

\* The batches a caller passes: rows labelled by a RangeIndex.
AllBatches ==
    UNION {[1..n -> AllQueries] : n \in 1..MaxBatch}

Batches == {batch \in AllBatches : \A k \in 1..Len(batch) : batch[k] \in Queries}

WithIndex(batch) ==
    [k \in 1..Len(batch) |->
        [c \in {"idx"} \cup Range(inputs) |-> IF c = "idx" THEN k ELSE batch[k][c]]]

\* evaluate(dataframe): the batch goes through _eval_impl.
EvaluateBatch(batch) ==
    /\ status = "primed"
    /\ op = "none"
    /\ batch \in Batches
    /\ \E outcome \in ReindexOutcomes(WithIndex(batch), LookupTableNonwildcard) :
         LET res == EvalImpl(WithIndex(batch), outcome)
         IN  /\ path' = res.path
             /\ frame' = res.frame
    /\ op' = "batch"
    /\ input_table' = WithIndex(batch)
    /\ UNCHANGED <<df, status, table, wildcard_markers, passed_inputs, matches, result,
                   last_call>>
    /\ UNCHANGED <<svars, dvars>>

Next ==
    \/ Prime
    \/ \E call \in Calls : EvaluateOne(call)
    \/ \E session \in Sessions : EvaluateUnresolved(session)
    \/ \E batch \in AllBatches : EvaluateBatch(batch)

Spec == Init /\ [][Next]_vars

\* ======================================================== the rating plan
\* RatingPlan.make_dag / RatingPlan.rate: the registry of steps, the graph
\* built from their inputs and outputs, and its sequential or parallel run.
Steps == 1..MaxSteps
NoStep == 0

\* No table is involved in a behaviour of the plan.
NoTable ==
    /\ df = <<>>
    /\ status = "none"
    /\ table = <<>>
    /\ wildcard_markers = <<>>
    /\ op = "none"
    /\ passed_inputs = <<>>
    /\ matches = <<>>
    /\ result = <<>>
    /\ input_table = <<>>
    /\ path = "none"
    /\ frame = [columns |-> {}, rows |-> <<>>]
    /\ last_call = <<>>

\* Kahn's algorithm: the steps a topological sort can order.
RECURSIVE Sortable(_, _)
Sortable(graph, sorted) ==
    LET free == {s \in Steps \ sorted : graph[s] \subseteq sorted}
    IN  IF free = {} THEN sorted ELSE Sortable(graph, sorted \cup free)

\* A prepare() that looks for no cycle.
NoCycleCheck(graph) == FALSE

\* prepare() raises CycleError on a graph with a cycle.
HasCycle(graph) == Sortable(graph, {}) # Steps

\* The plans registered: every acyclic graph appears with its steps numbered
\* in one of its topological orders; the cyclic graphs appear as they are.
Plans ==
    {g \in [Steps -> SUBSET Steps] :
        /\ \A s \in Steps : s \notin g[s]
        /\ \/ \A s \in Steps : \A u \in g[s] : u < s
           \/ Sortable(g, {}) # Steps}

NoResults == [s \in Steps |-> {}]

\* A step's transformation, run on the session it is given: the value it
\* returns is made of what it reads (its own definition and the results of
\* the steps producing its inputs), or it raises.
Evaluate(s, session) ==
    [name |-> s,
     kind |-> IF s \in raising THEN "error" ELSE "value",
     value |-> {s} \cup UNION {session[u] : u \in plan[s]}]

\* The session a task carries: the results tier as of dispatch time.
SessionWithoutResults(session) == NoResults

SessionSnapshot(session) == session

\* The variant that hands out every step not yet handed out.
IsReadyAny(s) == TRUE

\* get_ready(): every producer of the step's inputs is marked done.
IsReady(s) == plan[s] \subseteq done

Ready == {s \in Steps \ dispatched : IsReady(s)}

\* results = {name: value}: a write that starts the tier afresh.
MergedAlone(name, value) == [s \in Steps |-> IF s = name THEN value ELSE {}]

\* results[name] = value: the orchestrator's write into the results tier.
Merged(name, value) == [results EXCEPT ![name] = value]

\* What the parallel run hands back after it caught an error: its error path
\* runs into a `finally` that returns the session.
ParallelOutcome(err) == "returned"

Sentinel == [kind |-> "sentinel", name |-> NoStep, session |-> NoResults]
\* A drain that is one sentinel short of the pool.
OneSentinelShort == [i \in 1..(NumWorkers - 1) |-> Sentinel]

\* One sentinel per worker.
Sentinels == [i \in 1..NumWorkers |-> Sentinel]

SchedInit ==
    /\ NoTable
    /\ NoDicts
    /\ plan \in Plans
    /\ raising \in {{}} \cup {{s} : s \in Steps}
    /\ mode \in {"sequential", "parallel"}
    /\ sched = "idle"
    /\ results = NoResults
    /\ writes = [s \in Steps |-> 0]
    /\ dispatched = {}
    /\ done = {}
    /\ task_queue = <<>>
    /\ results_queue = <<>>
    /\ running = {}
    /\ exited = 0
    /\ error = NoStep
    /\ run_outcome = "none"
    /\ previous = <<>>

\* make_dag() and prepare(): build the graph; a cycle is an error here.
Prepare ==
    /\ sched = "idle"
    /\ IF HasCycle(plan)
       THEN sched' = "cycle_error" /\ run_outcome' = "raised"
       ELSE sched' = "active" /\ run_outcome' = run_outcome
    /\ UNCHANGED <<plan, raising, mode, results, dispatched, done, task_queue,
                   results_queue, running, exited, error, previous>>
    /\ UNCHANGED writes
    /\ UNCHANGED <<tvars, dvars>>

\* Sequential mode: the next step of the static order is evaluated on the
\* session and its result appended; an exception aborts the run.
SeqStep(s) ==
    /\ mode = "sequential"
    /\ sched = "active"
    /\ s \in Ready
    /\ dispatched' = dispatched \cup {s}
    /\ IF Evaluate(s, results).kind = "error"
       THEN /\ sched' = "failed"
            /\ error' = s
            /\ run_outcome' = "raised"
            /\ UNCHANGED <<results, writes, done>>
       ELSE /\ results' = Merged(s, Evaluate(s, results).value)
            /\ writes' = [writes EXCEPT ![s] = @ + 1]
            /\ done' = done \cup {s}
            /\ UNCHANGED <<sched, error, run_outcome>>
    /\ UNCHANGED <<plan, raising, mode, task_queue, results_queue, running,
                   exited, previous>>
    /\ UNCHANGED <<tvars, dvars>>

SeqFinish ==
    /\ mode = "sequential"
    /\ sched = "active"
    /\ done = Steps
    /\ sched' = "complete"
    /\ run_outcome' = "returned"
    /\ UNCHANGED <<plan, raising, mode, results, dispatched, done, task_queue,
                   results_queue, running, exited, error, previous>>
    /\ UNCHANGED writes
    /\ UNCHANGED <<tvars, dvars>>

\* An orchestrator whose loop goes on while it drains the pool.
LoopingWhileDraining == sched \in {"active", "draining"}

\* The orchestrator's loop (enqueue the ready steps, poll the results queue)
\* runs in the active state only: an error seen ends that state.
Looping == sched = "active"

\* Parallel mode, orchestrator: enqueue a task for a ready step, with the
\* session as it is now.
Dispatch(s) ==
    /\ mode = "parallel"
    /\ Looping
    /\ s \in Ready
    /\ dispatched' = dispatched \cup {s}
    /\ task_queue' = Append(task_queue, [kind |-> "task", name |-> s, session |-> SessionSnapshot(results)])
    /\ UNCHANGED <<plan, raising, mode, sched, results, done, results_queue,
                   running, exited, error, run_outcome, previous>>
    /\ UNCHANGED writes
    /\ UNCHANGED <<tvars, dvars>>

\* Orchestrator: take one result off the results queue; a value is merged and
\* its step marked done, an error ends the dispatching.
Receive ==
    /\ mode = "parallel"
    /\ Looping
    /\ Ready = {}
    /\ results_queue # <<>>
    /\ results_queue' = Tail(results_queue)
    /\ IF Head(results_queue).kind = "error"
       THEN /\ error' = Head(results_queue).name
            /\ sched' = "draining"
            /\ task_queue' = task_queue \o Sentinels
            /\ UNCHANGED <<results, writes, done>>
       ELSE /\ results' = Merged(Head(results_queue).name, Head(results_queue).value)
            /\ writes' = [writes EXCEPT ![Head(results_queue).name] = @ + 1]
            /\ done' = done \cup {Head(results_queue).name}
            /\ UNCHANGED <<error, sched, task_queue>>
    /\ UNCHANGED <<plan, raising, mode, dispatched, running, exited, run_outcome, previous>>
    /\ UNCHANGED <<tvars, dvars>>

\* Orchestrator: the graph is no longer active; one sentinel per worker.
Drain ==
    /\ mode = "parallel"
    /\ sched = "active"
    /\ done = Steps
    /\ sched' = "draining"
    /\ task_queue' = task_queue \o Sentinels
    /\ UNCHANGED <<plan, raising, mode, results, dispatched, done, results_queue,
                   running, exited, error, run_outcome, previous>>
    /\ UNCHANGED writes
    /\ UNCHANGED <<tvars, dvars>>

\* Orchestrator: the pool is joined and run() ends.
Join ==
    /\ mode = "parallel"
    /\ sched = "draining"
    /\ exited = NumWorkers
    /\ sched' = IF error = NoStep THEN "complete" ELSE "failed"
    /\ run_outcome' = IF error = NoStep THEN "returned" ELSE ParallelOutcome(error)
    /\ UNCHANGED <<plan, raising, mode, results, dispatched, done, task_queue,
                   results_queue, running, exited, error, previous>>
    /\ UNCHANGED writes
    /\ UNCHANGED <<tvars, dvars>>

\* A worker pulls the next unit of work; the sentinel makes it exit.
WorkerTake ==
    /\ mode = "parallel"
    /\ sched \in {"active", "draining"}
    /\ task_queue # <<>>
    /\ Cardinality(running) + exited < NumWorkers
    /\ task_queue' = Tail(task_queue)
    /\ IF Head(task_queue).kind = "sentinel"
       THEN exited' = exited + 1 /\ running' = running
       ELSE running' = running \cup {Head(task_queue)} /\ exited' = exited
    /\ UNCHANGED <<plan, raising, mode, sched, results, dispatched, done,
                   results_queue, error, run_outcome, previous>>
    /\ UNCHANGED writes
    /\ UNCHANGED <<tvars, dvars>>

\* A worker that reads the results tier itself, as it is when it looks.
SeenLive(task) == results

\* The session a worker reads while it runs a task: the snapshot the task
\* carries.
Seen(task) == task.session

\* A worker evaluates its step on the session of the task and pushes the
\* value or the error.
WorkerDone(s) ==
    /\ \E task \in running : task.name = s
    /\ LET task == CHOOSE t \in running : t.name = s
       IN  /\ running' = running \ {task}
           /\ results_queue' = Append(results_queue, Evaluate(task.name, Seen(task)))
    /\ UNCHANGED <<plan, raising, mode, sched, results, dispatched, done,
                   task_queue, exited, error, run_outcome, previous>>
    /\ UNCHANGED writes
    /\ UNCHANGED <<tvars, dvars>>

\* The same plan and book are run again in the other mode.
Rerun ==
    /\ sched \in {"complete", "failed"}
    /\ previous = <<>>
    /\ previous' = <<[mode |-> mode, sched |-> sched, results |-> results, done |-> done]>>
    /\ mode' = IF mode = "sequential" THEN "parallel" ELSE "sequential"
    /\ sched' = "idle"
    /\ results' = NoResults
    /\ writes' = [s \in Steps |-> 0]
    /\ dispatched' = {}
    /\ done' = {}
    /\ task_queue' = <<>>
    /\ results_queue' = <<>>
    /\ running' = {}
    /\ exited' = 0
    /\ error' = NoStep
    /\ run_outcome' = "none"
    /\ UNCHANGED <<plan, raising>>
    /\ UNCHANGED <<tvars, dvars>>

SchedNext ==
    \/ Prepare
    \/ \E s \in Steps : SeqStep(s)
    \/ SeqFinish
    \/ \E s \in Steps : Dispatch(s)
    \/ Receive
    \/ Drain
    \/ Join
    \/ WorkerTake
    \/ \E s \in Steps : WorkerDone(s)
    \/ Rerun

SchedSpec == SchedInit /\ [][SchedNext]_vars

\* The orchestrator and the workers are processes of their own that the host
\* keeps running: a step of one of them that stays possible is taken.  Every
\* step evaluation terminates (WorkerDone).  Nothing forces a second run.
SchedFairSpec ==
    /\ SchedSpec
    /\ WF_vars(Prepare)
    /\ WF_vars(\E s \in Steps : SeqStep(s))
    /\ WF_vars(SeqFinish)
    /\ WF_vars(\E s \in Steps : Dispatch(s))
    /\ WF_vars(Receive)
    /\ WF_vars(Drain)
    /\ WF_vars(Join)
    /\ WF_vars(WorkerTake)
    /\ WF_vars(\E s \in Steps : WorkerDone(s))

\* ============================================================= FancyDict
\* A session as a FancyDict of two tiers, `book` and `results`, each a
\* mapping from names to values.
TierNames == {"book", "results"}
Keys == {"x", "y"}

\* The value a tier holds under a name: tagged by its tier.
ValueIn(tier, key) == <<tier, key>>
Absent == <<>>

\* What a tier may hold: each name present or not.
TierItems(tier) == {[k \in Keys |-> IF k \in present THEN ValueIn(tier, k) ELSE Absent] :
                        present \in SUBSET Keys}

\* dict.update(kwargs): a new key goes last, a known key keeps its place.
Updated(items, key, value) ==
    IF \E i \in 1..Len(items) : items[i].key = key
    THEN [i \in 1..Len(items) |->
            IF items[i].key = key THEN [key |-> key, items |-> value] ELSE items[i]]
    ELSE Append(items, [key |-> key, items |-> value])

\* val.get(key) of one item: the value, or None (a SearchableDict raises
\* AttributeError instead, which FancyDict.get passes over).
ItemGet(item, key) == item.items[key]

\* FancyDict.get(key): the item under that very key, else the first item, in
\* the dict's order, whose own get finds the key; else the default.
FancyGet(items, key) ==
    IF \E i \in 1..Len(items) : items[i].key = key
    THEN <<"item", key>>
    ELSE LET found == {i \in 1..Len(items) : ItemGet(items[i], key) # Absent}
         IN  IF found = {} THEN Absent
             ELSE ItemGet(items[CHOOSE i \in found : \A j \in found : i <= j], key)

SessionInit ==
    /\ NoTable
    /\ NoPlan
    /\ NoInterpolation
    /\ NoBook
    /\ NoProbe
    /\ tiers = <<>>
    /\ got = <<>>

\* FancyDict.register(tier = value)
Register(tier, value) ==
    /\ value \in TierItems(tier)
    /\ tiers' = Updated(tiers, tier, value)
    /\ got' = <<>>
    /\ UNCHANGED <<tvars, svars, ivars, bvars, pvars>>

\* FancyDict.get(key)
Get(key) ==
    /\ got' = [key |-> key, value |-> FancyGet(tiers, key)]
    /\ UNCHANGED tiers
    /\ UNCHANGED <<tvars, svars, ivars, bvars, pvars>>

SessionNext ==
    \/ \E tier \in TierNames : \E value \in TierItems(tier) : Register(tier, value)
    \/ \E key \in Keys : Get(key)

SessionSpec == SessionInit /\ [][SessionNext]_vars

\* ================================================= InterpolatedRatingTable
\* One numeric key dimension and one output; outputs are kept in tenths, and
\* interpolated outputs as fractions num/den.
StoredKeys == {18, 20, 21}
QueryKeys == 17..22
OutputTenths == {18, 20, 23}

\* The source tables: two or more points, with or without a wildcard row.
Sources ==
    {[points |-> pts, wildcard |-> w] :
        pts \in UNION {[ks -> OutputTenths] : ks \in {k \in SUBSET StoredKeys : Cardinality(k) >= 2}},
        w \in BOOLEAN}

\* The elements of a set of numbers in increasing order.
RECURSIVE Sorted(_)
Sorted(S) ==
    IF S = {} THEN <<>>
    ELSE LET least == CHOOSE x \in S : \A y \in S : x <= y
         IN  <<least>> \o Sorted(S \ {least})

\* The working table's keys: the stored keys and the query keys, sorted.
WorkingKeys(points, qs) == Sorted(DOMAIN points \cup Range(qs))

\* An interpolation that takes the rows as equally spaced.
Position(working, i) == i

\* Where a row of the working table lies: at its key.
Coordinate(working, i) == working[i]

\* The line through (c0, v0) and (c1, v1), read at c.
Line(c0, v0, c1, v1, c) ==
    [num |-> v0 * (c1 - c0) + (v1 - v0) * (c - c0), den |-> c1 - c0]

\* The output of row i of the working table: the stored output, else the
\* line through the nearest stored rows on either side; beyond the stored
\* range, the line through the two stored rows at that end.
WorkingOutput(points, working, i) ==
    LET known == {j \in 1..Len(working) : working[j] \in DOMAIN points}
        below == {j \in known : j < i}
        above == {j \in known : j > i}
        Least(S) == CHOOSE j \in S : \A k \in S : j <= k
        Greatest(S) == CHOOSE j \in S : \A k \in S : j >= k
        j0 == IF below = {} THEN Least(known)
              ELSE IF above = {} THEN Greatest(known \ {Greatest(known)})
              ELSE Greatest(below)
        j1 == IF below = {} THEN Least(known \ {Least(known)})
              ELSE IF above = {} THEN Greatest(known)
              ELSE Least(above)
    IN  IF i \in known
        THEN [num |-> points[working[i]], den |-> 1]
        ELSE Line(Coordinate(working, j0), points[working[j0]],
                  Coordinate(working, j1), points[working[j1]],
                  Coordinate(working, i))

\* Read each query value's output off the interpolated working table.
Interpolate(points, qs) ==
    LET working == WorkingKeys(points, qs)
    IN  [k \in 1..Len(qs) |->
            WorkingOutput(points, working,
                          CHOOSE i \in 1..Len(working) : working[i] = qs[k])]

InterpInit ==
    /\ NoTable
    /\ NoPlan
    /\ NoSession
    /\ NoBook
    /\ NoProbe
    /\ source \in Sources
    /\ istatus = "new"
    /\ queries = <<>>
    /\ interpolated = <<>>

\* from_rating_table: a source with a wildcard row is refused.
FromRatingTable ==
    /\ istatus = "new"
    /\ istatus' = IF source.wildcard THEN "error" ELSE "built"
    /\ UNCHANGED <<source, queries, interpolated>>
    /\ UNCHANGED <<tvars, svars, fvars, bvars, pvars>>

\* evaluate on a batch of query values.
InterpolatedEvaluate(qs) ==
    /\ istatus = "built"
    /\ queries = <<>>
    /\ queries' = qs
    /\ interpolated' = Interpolate(source.points, qs)
    /\ UNCHANGED <<source, istatus>>
    /\ UNCHANGED <<tvars, svars, fvars, bvars, pvars>>

QueryBatches == UNION {[1..n -> QueryKeys] : n \in 1..MaxQueries}

InterpNext ==
    \/ FromRatingTable
    \/ \E qs \in QueryBatches : InterpolatedEvaluate(qs)

InterpSpec == InterpInit /\ [][InterpNext]_vars

\* ========================================================= SearchableDict
\* A dataframe: the names of its index levels (None for an unnamed level),
\* its columns in order, and its rows, each with one value per index level
\* and one per column.
CellValues == {1, 2}

\* The frames handed in under the key "a": a raw fr on the default index,
\* an indexed fr, and a fr whose index kept the default level beside a
\* named one. An unnamed level is the default one: the row's position.
ShapesA ==
    {[names |-> <<None>>, columns |-> <<"k", "v">>],
     [names |-> <<"k">>, columns |-> <<"v">>],
     [names |-> <<None, "k">>, columns |-> <<"v">>]}

\* The frames handed in under the key "b": indexed by k.
ShapesB == {[names |-> <<"k">>, columns |-> <<"w">>]}

FramesOf(shape) ==
    UNION {
        {[names |-> shape.names, columns |-> shape.columns,
          rows |-> [i \in 1..n |->
                      [idx |-> [l \in 1..Len(shape.names) |->
                                  IF shape.names[l] = None THEN i - 1 ELSE named[i][l]],
                       rec |-> cells[i]]]] :
            named \in [1..n -> [1..Len(shape.names) -> CellValues]],
            cells \in [1..n -> [Range(shape.columns) -> CellValues]]}
        : n \in 1..MaxFrameRows}

FramesA == UNION {FramesOf(shape) : shape \in ShapesA}
FramesB == UNION {FramesOf(shape) : shape \in ShapesB}

\* index.is_unique
IsUnique(fr) ==
    \A i, j \in 1..Len(fr.rows) : i # j => fr.rows[i].idx # fr.rows[j].idx

\* The positions of the index levels with a name.
NamedLevels(fr) == {l \in 1..Len(fr.names) : fr.names[l] # None}

\* The subsequence of seq at the positions in keep, in order.
RECURSIVE Pick(_, _, _)
Pick(seq, keep, from) ==
    IF from > Len(seq) THEN <<>>
    ELSE (IF from \in keep THEN <<seq[from]>> ELSE <<>>) \o Pick(seq, keep, from + 1)

\* df.set_index(cols, append = True) followed by the removal of the levels
\* without a name; the columns moved leave the frame.  Without any level left
\* the frame is back on the default index.
WithIndex2(fr, cols, drop_unnamed) ==
    LET keep == IF drop_unnamed THEN NamedLevels(fr) ELSE 1..Len(fr.names)
        names == Pick(fr.names, keep, 1) \o cols
    IN  [names |-> IF names = <<>> THEN <<None>> ELSE names,
         columns |-> SelectSeq(fr.columns, LAMBDA c : c \notin Range(cols)),
         rows |-> [i \in 1..Len(fr.rows) |->
                     [idx |-> IF names = <<>> THEN <<i - 1>>
                              ELSE Pick(fr.rows[i].idx, keep, 1)
                                   \o [c \in 1..Len(cols) |-> fr.rows[i].rec[cols[c]]],
                      rec |-> [c \in Range(fr.columns) \ Range(cols) |->
                                 fr.rows[i].rec[c]]]]]

\* ------------------------------------------------ helpers.set_unique_index
max_cols == 5

\* The samples of leading columns tried, as increasing column positions.
Samples(fr) ==
    {pos \in UNION {[1..n -> 1..Len(fr.columns)] : n \in 1..Len(fr.columns)} :
        /\ \A i \in 1..(Len(pos) - 1) : pos[i] < pos[i + 1]
        /\ pos[Len(pos)] <= max_cols}

\* The order the loops first reach two samples in: by the number of leading
\* columns needed, then by size, then as itertools.combinations lists them.
Before(p, q) ==
    \/ p[Len(p)] < q[Len(q)]
    \/ /\ p[Len(p)] = q[Len(q)]
       /\ \/ Len(p) < Len(q)
          \/ /\ Len(p) = Len(q)
             /\ \E i \in 1..Len(p) :
                   /\ p[i] < q[i]
                   /\ \A j \in 1..(i - 1) : p[j] = q[j]

SampleColumns(fr, pos) == [i \in 1..Len(pos) |-> fr.columns[pos[i]]]

\* set_unique_index(df, max_cols): the frame itself when its index is unique
\* and named; else the frame indexed by its named levels and the first
\* sample that makes the index unique; else an exception.
SetUniqueIndex(fr) ==
    IF IsUnique(fr) /\ fr.names # <<None>>
    THEN [ok |-> TRUE, fr |-> fr]
    ELSE LET good == {pos \in Samples(fr) :
                        IsUnique(WithIndex2(fr, SampleColumns(fr, pos), TRUE))}
         IN  IF good = {} THEN [ok |-> FALSE, fr |-> fr]
             ELSE LET first == CHOOSE p \in good : \A q \in good \ {p} : Before(p, q)
                  IN  [ok |-> TRUE,
                       fr |-> WithIndex2(fr, SampleColumns(fr, first), TRUE)]

\* ----------------------------------------- SearchableDict.set_unique_indices
Unable(key) ==
    IF key = "a" THEN "Unable to set unique index for dataframe a"
    ELSE "Unable to set unique index for dataframe b"

\* The frames are treated in the dict's order; the first failure raises, and
\* the frames before it keep their new index.
RECURSIVE SetUniqueIndices(_, _)
SetUniqueIndices(items, from) ==
    IF from > Len(items) THEN [items |-> items, error |-> ""]
    ELSE LET fr == items[from].items
         IN  IF IsUnique(fr) /\ fr.names # <<None>>
             THEN SetUniqueIndices(items, from + 1)
             ELSE IF SetUniqueIndex(fr).ok
             THEN SetUniqueIndices(
                      [items EXCEPT ![from].items = SetUniqueIndex(fr).fr], from + 1)
             ELSE [items |-> items, error |-> Unable(items[from].key)]

\* --------------------------------------- SearchableDict.set_joinable_indices
AllNames(fr) == Range(fr.names) \cup Range(fr.columns)

\* The names that more than one dataframe carries.
SharedNames(items) ==
    {name \in UNION {AllNames(items[i].items) : i \in 1..Len(items)} :
        Cardinality({i \in 1..Len(items) : name \in AllNames(items[i].items)}) > 1}

\* The names that more than two dataframes carry: a threshold off by one.
SharedByThree(items) ==
    {name \in UNION {AllNames(items[i].items) : i \in 1..Len(items)} :
        Cardinality({i \in 1..Len(items) : name \in AllNames(items[i].items)}) > 2}

LstIdx(items) == SharedNames(items)

SetJoinableIndices(items) ==
    [i \in 1..Len(items) |->
        LET fr == items[i].items
            add_to_idx == SelectSeq(fr.columns,
                                    LAMBDA c : c \in LstIdx(items) /\ c \notin Range(fr.names))
        IN  [key |-> items[i].key, items |-> WithIndex2(fr, add_to_idx, TRUE)]]

\* ------------------------------------------------------------- the dict
BookInit ==
    /\ NoTable
    /\ NoPlan
    /\ NoSession
    /\ NoInterpolation
    /\ NoProbe
    /\ \E a \in FramesA :
          \/ given = <<[key |-> "a", items |-> a]>>
          \/ \E b \in FramesB :
                given = <<[key |-> "a", items |-> a], [key |-> "b", items |-> b]>>
    /\ book = <<>>
    /\ bstatus = "new"
    /\ joinable_indices \in BOOLEAN
    /\ unique_indexed = <<>>
    /\ fetched = <<>>

\* SearchableDict.__init__(joinable_indices, **kwargs)
BuildBook ==
    /\ bstatus = "new"
    /\ LET unique == SetUniqueIndices(given, 1)
       IN  IF unique.error # ""
           THEN /\ bstatus' = unique.error
                /\ book' = <<>>
                /\ UNCHANGED unique_indexed
           ELSE /\ bstatus' = "built"
                /\ unique_indexed' = unique.items
                /\ book' = IF joinable_indices
                           THEN SetJoinableIndices(unique.items)
                           ELSE unique.items
    /\ UNCHANGED <<given, joinable_indices, fetched>>
    /\ UNCHANGED <<tvars, svars, fvars, ivars, pvars>>

\* SearchableDict.register(b = frame): the dict is updated first, so that a
\* failure leaves the frame in it.
RegisterFrame(b) ==
    /\ bstatus = "built"
    /\ fetched = <<>>
    /\ ~\E i \in 1..Len(book) : book[i].key = "b"
    /\ LET unique == SetUniqueIndices(Updated(book, "b", b), 1)
       IN  IF unique.error # ""
           THEN /\ bstatus' = unique.error
                /\ book' = unique.items
                /\ UNCHANGED unique_indexed
           ELSE /\ bstatus' = "built"
                /\ unique_indexed' = unique.items
                /\ book' = IF joinable_indices
                           THEN SetJoinableIndices(unique.items)
                           ELSE unique.items
    /\ UNCHANGED <<given, joinable_indices, fetched>>
    /\ UNCHANGED <<tvars, svars, fvars, ivars, pvars>>

\* ------------------------------------------------------ SearchableDict.get
Names == {"k", "v", "w", "z"}
Requests ==
    {<<"v">>, <<"z">>, <<"v", "k">>, <<"v", "w">>, <<"w", "v">>, <<"v", "z">>,
     <<"k", "v", "w">>, <<"v", "w", "v">>}
Hows == {"left", "inner"}

\* The value pandas puts where a join finds no row.
MissingKey == -1

LevelOf(names, name) == CHOOSE l \in 1..Len(names) : names[l] = name

\* The column `key` of a frame as a Series on the frame's index; an index
\* level is searchable as a column too.
SeriesOf(fr, key) ==
    [names |-> fr.names,
     rows |-> [i \in 1..Len(fr.rows) |->
                 [idx |-> fr.rows[i].idx,
                  val |-> IF key \in Range(fr.columns) THEN fr.rows[i].rec[key]
                          ELSE fr.rows[i].idx[LevelOf(fr.names, key)]]]]

\* get(key) for one name: the column of the first frame that has it as a
\* column (FancyDict.get), else of the first frame that has it as a column
\* or an index level, else nothing.
GetOne(items, key) ==
    LET as_column == {i \in 1..Len(items) : key \in Range(items[i].items.columns)}
        anywhere == {i \in 1..Len(items) : key \in AllNames(items[i].items)}
        lowest(S) == CHOOSE i \in S : \A j \in S : i <= j
    IN  IF as_column # {} THEN SeriesOf(items[lowest(as_column)].items, key)
        ELSE IF anywhere # {} THEN SeriesOf(items[lowest(anywhere)].items, key)
        ELSE Absent

\* frame[keys]: the named columns, in the order asked, on the frame's index.
Columns(fr, keys) ==
    [names |-> fr.names,
     columns |-> keys,
     rows |-> [i \in 1..Len(fr.rows) |->
                 [idx |-> fr.rows[i].idx,
                  rec |-> [c \in Range(keys) |->
                             IF c \in Range(fr.columns) THEN fr.rows[i].rec[c]
                             ELSE fr.rows[i].idx[LevelOf(fr.names, c)]]]]]

\* get(keys) answered by one frame: the first frame with every key among
\* its columns, else the first with every key among columns and levels.
GetWithin(items, keys) ==
    LET as_columns == {i \in 1..Len(items) :
                          Range(keys) \subseteq Range(items[i].items.columns)}
        anywhere == {i \in 1..Len(items) :
                        Range(keys) \subseteq AllNames(items[i].items)}
        lowest(S) == CHOOSE i \in S : \A j \in S : i <= j
    IN  IF as_columns # {} THEN Columns(items[lowest(as_columns)].items, keys)
        ELSE IF anywhere # {} THEN Columns(items[lowest(anywhere)].items, keys)
        ELSE Absent

\* list(dict.fromkeys(key))
RECURSIVE Dedupe(_)
Dedupe(keys) ==
    IF keys = <<>> THEN <<>>
    ELSE LET front == Dedupe(SubSeq(keys, 1, Len(keys) - 1))
             last == keys[Len(keys)]
         IN  IF last \in Range(front) THEN front ELSE Append(front, last)

\* Series.to_frame(k)
ToFrame(series, k) ==
    [names |-> series.names,
     columns |-> <<k>>,
     rows |-> [i \in 1..Len(series.rows) |->
                 [idx |-> series.rows[i].idx,
                  rec |-> [c \in {k} |-> series.rows[i].val]]]]

\* The levels two indexes are joined on: both levels when each index has
\* one, else the levels of the same name.
OnLevels(left, right) ==
    IF Len(left.names) = 1 /\ Len(right.names) = 1 THEN {<<1, 1>>}
    ELSE {<<l, r>> \in (1..Len(left.names)) \X (1..Len(right.names)) :
             left.names[l] = right.names[r] /\ left.names[l] # None}

RightOnly(left, right) ==
    {r \in 1..Len(right.names) : \A on \in OnLevels(left, right) : on[2] # r}

\* The rows of one left row in the join: one per matching right row; without
\* a match the left row alone when how = 'left' and none when how = 'inner'.
JoinRow(row, left, right, k, how) ==
    LET matching == SelectSeq(right.rows,
                        LAMBDA r : \A on \in OnLevels(left, right) :
                                      r.idx[on[2]] = row.idx[on[1]])
        extra == RightOnly(left, right)
        with(idx, val) == [idx |-> row.idx \o idx,
                           rec |-> [c \in DOMAIN row.rec \cup {k} |->
                                      IF c = k THEN val ELSE row.rec[c]]]
    IN  IF matching # <<>>
        THEN [m \in 1..Len(matching) |->
                with(Pick(matching[m].idx, extra, 1), matching[m].val)]
        ELSE IF how = "left"
        THEN <<with(Pick([r \in 1..Len(right.names) |-> MissingKey], extra, 1),
                    MissingKey)>>
        ELSE <<>>

RECURSIVE JoinRows(_, _, _, _, _)
JoinRows(left, right, k, how, from) ==
    IF from > Len(left.rows) THEN <<>>
    ELSE JoinRow(left.rows[from], left, right, k, how)
         \o JoinRows(left, right, k, how, from + 1)

\* A join that takes `how` for 'left' whatever was asked.
JoinedLeft(left, right, k, how) ==
    [names |-> left.names \o Pick(right.names, RightOnly(left, right), 1),
     columns |-> Append(left.columns, k),
     rows |-> JoinRows(left, right, k, "left", 1)]

\* joined.join(item.rename(k), how = how), with the levels in the order of
\* their first appearance (reorder_levels).
Joined(left, right, k, how) ==
    [names |-> left.names \o Pick(right.names, RightOnly(left, right), 1),
     columns |-> Append(left.columns, k),
     rows |-> JoinRows(left, right, k, how, 1)]

\* What pandas makes of the two indexes: "join" on shared levels, "raise"
\* without a shared name, and either for two one-level indexes of different
\* names (the joined index is named after the left one in some versions and
\* unnamed in others, where reorder_levels then fails) and for an unnamed
\* level beside named ones in both indexes.
JoinOutcomes(left, right) ==
    IF Len(left.names) = 1 /\ Len(right.names) = 1
    THEN IF left.names = right.names THEN {"join"} ELSE {"join", "raise"}
    ELSE IF OnLevels(left, right) = {} THEN {"raise"}
    ELSE IF /\ Len(left.names) > 1 /\ Len(right.names) > 1
            /\ None \in Range(left.names) \cup Range(right.names)
    THEN {"join", "raise"}
    ELSE {"join"}

\* The loop over unique_keys from position `from`, joined being the table
\* so far; steps collects the tables after each key.
RECURSIVE JoinAll(_, _, _, _, _, _, _)
JoinAll(items, keys, how, version, joined, steps, from) ==
    IF from > Len(keys) THEN [kind |-> "table", value |-> joined, steps |-> steps]
    ELSE LET k == keys[from]
             item_to_join == GetOne(items, k)
         IN  IF item_to_join = Absent
             THEN [kind |-> "raise", value |-> "AttributeError", steps |-> steps]
             ELSE IF from = 1
             THEN JoinAll(items, keys, how, version, ToFrame(item_to_join, k),
                          <<ToFrame(item_to_join, k)>>, 2)
             ELSE LET outcomes == JoinOutcomes(joined, item_to_join)
                      taken == IF version \in outcomes THEN version
                               ELSE CHOOSE o \in outcomes : TRUE
                  IN  IF taken = "raise"
                      THEN [kind |-> "raise", value |-> "pandas", steps |-> steps]
                      ELSE JoinAll(items, keys, how, version,
                                   Joined(joined, item_to_join, k, how),
                                   Append(steps, Joined(joined, item_to_join, k, how)),
                                   from + 1)

\* SearchableDict.get(key, how = how) for a list of names.
GetList(items, keys, how, version) ==
    IF GetWithin(items, keys) # Absent
    THEN [kind |-> "table", value |-> GetWithin(items, keys), steps |-> <<>>]
    ELSE JoinAll(items, Dedupe(keys), how, version, Absent, <<>>, 1)

GetFrom(request, how) ==
    /\ bstatus = "built"
    /\ fetched = <<>>
    /\ \E version \in {"join", "raise"} :
          fetched' = [key |-> request, how |-> how]
                     @@ GetList(book, request, how, version)
    /\ UNCHANGED <<given, book, bstatus, joinable_indices, unique_indexed>>
    /\ UNCHANGED <<tvars, svars, fvars, ivars, pvars>>

BookNext ==
    \/ BuildBook
    \/ \E b \in FramesB : RegisterFrame(b)
    \/ \E request \in Requests, how \in Hows : GetFrom(request, how)

BookSpec == BookInit /\ [][BookNext]_vars

\* ============================================================ AccessLogger
\* The keys a dry run accesses: names, the name of a pandas method, another
\* logger, a number, and lists of names.
PlainKeys == {"a", "b"}
PandasKey == "sum"
ProbeKey == "<logger>"
NumberKey == "<0>"
ListKeys == {<<"a", "b">>}
SingleKeys == PlainKeys \cup {PandasKey, ProbeKey, NumberKey}

\* str(key) of a list key, as one path element.
StrOf(key) == IF key = <<"a", "b">> THEN "['a', 'b']" ELSE "[...]"

\* depth = 1: the default of __init__, which a child logger is built with.
DefaultDepth == 1

\* AccessLogger(accessed, root, depth)
AccessLogger(root, depth) == [root |-> root, depth |-> depth]

\* get(key): what is recorded, and what is handed back.
LoggerGet(self, key, is_list) ==
    IF Len(self.root) < self.depth
    THEN IF ~is_list /\ key = ProbeKey
         THEN [raises |-> FALSE, records |-> {}, gives |-> self]
         ELSE IF is_list
         THEN [raises |-> FALSE,
               records |-> {Append(self.root, key[i]) : i \in 1..Len(key)},
               gives |-> AccessLogger(Append(self.root, StrOf(key)), DefaultDepth)]
         ELSE IF key = NumberKey
         THEN [raises |-> TRUE, records |-> {}, gives |-> self]
         ELSE IF key = PandasKey
         THEN [raises |-> FALSE, records |-> {}, gives |-> self]
         ELSE [raises |-> FALSE,
               records |-> {Append(self.root, key)},
               gives |-> AccessLogger(Append(self.root, key), DefaultDepth)]
    ELSE [raises |-> FALSE, records |-> {}, gives |-> self]

\* The operators Python knows, by kind.
Arithmetic ==
    {"add", "sub", "mul", "matmul", "truediv", "floordiv", "mod", "pow",
     "lshift", "rshift", "and", "or", "xor"}
Unary == {"invert", "neg", "pos", "abs"}
Comparison == {"eq", "ne", "lt", "le", "gt", "ge"}
Protocol == {"call", "iter", "next"}
Sides == {"left", "right"}

\* The special methods the class defines (__add__ is <<"", "add">>; a
\* reflected method such as __radd__ would be <<"r", "add">>) and what each
\* returns.
Defined ==
    {<<"", o>> : o \in {"call", "eq", "ge", "gt", "le", "lt", "add", "sub", "mul",
                        "pow", "truediv", "floordiv", "mod", "lshift", "rshift",
                        "and", "or", "xor", "invert", "iter", "next"}}

Returns(method) ==
    CASE method[2] \in {"eq", "ge", "gt"} -> "True"
      [] method[2] \in {"le", "lt"} -> "False"
      [] OTHER -> "self"

\* The comparison Python tries on the right operand when the left one
\* returns NotImplemented.
Mirrored(o) ==
    CASE o = "lt" -> "gt"
      [] o = "gt" -> "lt"
      [] o = "le" -> "ge"
      [] o = "ge" -> "le"
      [] OTHER -> o

\* The outcome of `logger <op> 1` (left) or `1 <op> logger` (right), of a
\* unary operator and of call/iter/next on the logger.  The other operand is
\* a number: its own method returns NotImplemented.  __ne__ is inherited and
\* negates __eq__.
Operation(o, side) ==
    IF o \in Comparison
    THEN LET tried == IF side = "left" THEN o ELSE Mirrored(o)
         IN  IF tried = "ne" THEN "False" ELSE Returns(<<"", tried>>)
    ELSE IF o \in Arithmetic
    THEN LET method == IF side = "left" THEN <<"", o>> ELSE <<"r", o>>
         IN  IF method \in Defined THEN Returns(method) ELSE "TypeError"
    ELSE IF <<"", o>> \in Defined THEN Returns(<<"", o>>) ELSE "TypeError"

ProbeInit ==
    /\ NoTable
    /\ NoPlan
    /\ NoSession
    /\ NoInterpolation
    /\ NoBook
    /\ configured \in 0..MaxDepth
    /\ accessed = {}
    /\ held = AccessLogger(<<>>, configured)
    /\ chain = <<>>
    /\ returned = "none"
    /\ probe_op = <<>>
    /\ looping = "no"
    /\ yielded = 0

\* logger.key / logger[key]: __getattr__ and __getitem__ call get(key).
Access(key) ==
    /\ returned # "TypeError"
    /\ looping = "no"
    /\ Len(chain) < MaxChain
    /\ LET got_back == LoggerGet(held, key, FALSE)
       IN  /\ accessed' = accessed \cup got_back.records
           /\ held' = got_back.gives
           /\ returned' = IF got_back.raises THEN "TypeError"
                          ELSE IF got_back.gives = held THEN "self" ELSE "child"
    /\ chain' = Append(chain, key)
    /\ probe_op' = [kind |-> "access", key |-> key]
    /\ UNCHANGED <<configured, looping, yielded>>
    /\ UNCHANGED <<tvars, svars, fvars, ivars, bvars>>

\* logger[[name, ...]]
AccessList(key) ==
    /\ returned # "TypeError"
    /\ looping = "no"
    /\ Len(chain) < MaxChain
    /\ LET got_back == LoggerGet(held, key, TRUE)
       IN  /\ accessed' = accessed \cup got_back.records
           /\ held' = got_back.gives
           /\ returned' = IF got_back.gives = held THEN "self" ELSE "child"
    /\ chain' = Append(chain, StrOf(key))
    /\ probe_op' = [kind |-> "access_list", key |-> StrOf(key)]
    /\ UNCHANGED <<configured, looping, yielded>>
    /\ UNCHANGED <<tvars, svars, fvars, ivars, bvars>>

\* The dry run goes back to the root logger for its next expression.
FromRoot ==
    /\ returned # "TypeError"
    /\ looping = "no"
    /\ chain # <<>>
    /\ held' = AccessLogger(<<>>, configured)
    /\ chain' = <<>>
    /\ returned' = "none"
    /\ probe_op' = [kind |-> "root"]
    /\ UNCHANGED <<configured, accessed, looping, yielded>>
    /\ UNCHANGED <<tvars, svars, fvars, ivars, bvars>>

\* An operator applied to the logger held.
Operate(o, side) ==
    /\ returned # "TypeError"
    /\ looping = "no"
    /\ o \in Arithmetic \cup Comparison \/ side = "left"
    /\ returned' = Operation(o, side)
    /\ probe_op' = [kind |-> "operate", op |-> o, side |-> side]
    /\ UNCHANGED <<configured, accessed, held, chain, looping, yielded>>
    /\ UNCHANGED <<tvars, svars, fvars, ivars, bvars>>

\* for item in logger: iter(logger) is the logger.
Iterate ==
    /\ returned # "TypeError"
    /\ looping = "no"
    /\ looping' = "iterating"
    /\ yielded' = 0
    /\ returned' = Operation("iter", "left")
    /\ probe_op' = [kind |-> "for"]
    /\ UNCHANGED <<configured, accessed, held, chain>>
    /\ UNCHANGED <<tvars, svars, fvars, ivars, bvars>>

\* The loop asks for the next item: next(logger) is the logger, and nothing
\* ever raises StopIteration.  The items are counted modulo MaxYield + 1.
IterNext ==
    /\ looping = "iterating"
    /\ returned' = Operation("next", "left")
    /\ looping' = IF Operation("next", "left") = "StopIteration" THEN "exhausted"
                  ELSE "iterating"
    /\ yielded' = (yielded + 1) % (MaxYield + 1)
    /\ probe_op' = [kind |-> "next"]
    /\ UNCHANGED <<configured, accessed, held, chain>>
    /\ UNCHANGED <<tvars, svars, fvars, ivars, bvars>>

ProbeNext ==
    \/ \E key \in SingleKeys : Access(key)
    \/ \E key \in ListKeys : AccessList(key)
    \/ FromRoot
    \/ \E o \in Arithmetic \cup Unary \cup Comparison \cup Protocol, side \in Sides :
          Operate(o, side)
    \/ Iterate
    \/ IterNext

ProbeSpec == ProbeInit /\ [][ProbeNext]_vars

\* The dry run is a running program: its loop goes on asking for items.
ProbeFairSpec == ProbeSpec /\ WF_vars(IterNext)

\* ------------------------------------------------------------ vocabulary
\* A row with a wildcard in at least one dimension (a "wildcard row"), as
\* get_wildcard_markers marks it.
HasWildcard(row) == \E name \in Range(inputs) : IsWildcardCell(row, name)

\* The rows of the table a bundle matches, without and with a wildcard.
SpecificMatches(q) ==
    {i \in 1..Len(table) : MatchingRowsFilter(table, q)[i] /\ ~HasWildcard(table[i])}
GenericMatches(q) ==
    {i \in 1..Len(table) : MatchingRowsFilter(table, q)[i] /\ HasWildcard(table[i])}

\* The outputs of row i as _lookup hands them back.
OutputsOf(i) == [k \in Range(outputs) |-> table[i][k]]

\* ------------------------------------------------------------------ C1
\* C1: whenever a single-bundle lookup matches both a row without any
\* wildcard and a row with a wildcard, it returns the outputs of a row
\* without wildcard, wherever the rows stand in the table.
C1_SpecificRowWins ==
    (op = "lookup" /\ SpecificMatches(passed_inputs) # {}
                   /\ GenericMatches(passed_inputs) # {})
        => \E i \in SpecificMatches(passed_inputs) : result = OutputsOf(i)

\* ------------------------------------------------------------------ C2
\* C2: a query that matches no row without wildcard but matches a wildcard
\* row gets that wildcard row's outputs, from a single lookup and for each
\* row of a batch.
C2_FallbackComplete ==
    /\ (op = "lookup" /\ SpecificMatches(passed_inputs) = {}
                      /\ GenericMatches(passed_inputs) # {})
          => \E i \in GenericMatches(passed_inputs) : result = OutputsOf(i)
    /\ op = "batch" =>
          \A k \in 1..Len(input_table) :
             (SpecificMatches(input_table[k]) = {} /\ GenericMatches(input_table[k]) # {})
                => /\ k <= Len(frame.rows)
                   /\ Range(outputs) \subseteq frame.columns
                   /\ \E i \in GenericMatches(input_table[k]) :
                         \A c \in Range(outputs) : frame.rows[k].rec[c] = table[i][c]

\* ------------------------------------------------------------------ C6
\* C6: an interval [a, b] is closed at both ends: a value equal to a or to b
\* matches the row's interval (and the row, when its other dimension
\* matches too); a value above b or below a does not match the row.
C6_IntervalClosed ==
    (op = "lookup" /\ "age" \in interval_inputs) =>
        \A i \in 1..Len(table) :
            LET iv == table[i].age
                x == passed_inputs.age
                row_matches == \A name \in Range(inputs) : matches[name][i]
            IN  /\ (x = iv.left \/ x = iv.right) =>
                      /\ matches["age"][i]
                      /\ matches["credit_tier"][i] => row_matches
                /\ (x > iv.right \/ x < iv.left) =>
                      /\ ~matches["age"][i]
                      /\ ~row_matches

\* A lookup at the left end of one row's interval, at the right end of a
\* row's interval, both matched, and above the right end of another row.
C6_Witness ==
    /\ op = "lookup"
    /\ "age" \in interval_inputs
    /\ \E i \in 1..Len(table) :
          /\ passed_inputs.age = table[i].age.left
          /\ \A name \in Range(inputs) : matches[name][i]
          /\ result = OutputsOf(i)
    /\ \E i \in 1..Len(table) :
          /\ passed_inputs.age = table[i].age.right
          /\ matches["age"][i]
    /\ \E i \in 1..Len(table) :
          /\ passed_inputs.age > table[i].age.right
          /\ ~matches["age"][i]

\* ------------------------------------------------------------------ C7
\* C7: a raw table with two rows that carry no wildcard and share their key
\* tuple is rejected by the constructor; it is never primed.
DuplicateSpecificKeys(rows) ==
    \E i, j \in 1..Len(rows) :
        /\ i < j
        /\ ~HasWildcard(rows[i]) /\ ~HasWildcard(rows[j])
        /\ \A name \in Range(inputs) : rows[i][name] = rows[j][name]

C7_DuplicateKeysRejected ==
    (status # "new" /\ DuplicateSpecificKeys(NewIndex(df))) => status = "error"

\* ------------------------------------------------------------------ C8
\* C8: a single-bundle lookup that matches no row returns every declared
\* output name of the table mapped to null.
C8_NoMatchNullOutputs ==
    (op = "lookup" /\ SpecificMatches(passed_inputs) = {}
                   /\ GenericMatches(passed_inputs) = {})
        => /\ DOMAIN result = Range(outputs)
           /\ \A k \in DOMAIN result : IsNa(result[k])

\* ------------------------------------------------------------------ C9
\* C9: when several rows of equal specificity match a bundle, the single
\* lookup returns the outputs of the one that stands first in the table.
AllMatches(q) == SpecificMatches(q) \cup GenericMatches(q)

EqualSpecificity(rows) ==
    \A i, j \in rows : HasWildcard(table[i]) = HasWildcard(table[j])

C9_FirstRowWins ==
    (op = "lookup" /\ Cardinality(AllMatches(passed_inputs)) >= 2
                   /\ EqualSpecificity(AllMatches(passed_inputs)))
        => \E i \in AllMatches(passed_inputs) :
              /\ \A j \in AllMatches(passed_inputs) : i <= j
              /\ result = OutputsOf(i)

\* Two rows without wildcard whose intervals overlap both hold the value.
C9_Witness ==
    /\ op = "lookup"
    /\ "age" \in interval_inputs
    /\ Cardinality(SpecificMatches(passed_inputs)) >= 2
    /\ GenericMatches(passed_inputs) = {}
    /\ \E i, j \in SpecificMatches(passed_inputs) : table[i].age # table[j].age
    /\ result = OutputsOf(1)

RECURSIVE UpstreamClosure(_, _)
UpstreamClosure(found, n) ==
    IF n = 0 THEN found
    ELSE UpstreamClosure(found \cup UNION {plan[u] : u \in found}, n - 1)

DependsOn(s) == UpstreamClosure(plan[s], MaxSteps)

C4_FailFast ==
    (sched = "failed" /\ Cardinality(raising) = 1) =>
        /\ run_outcome = "raised"
        /\ \A s \in Steps : error \in DependsOn(s) => results[s] = {}

C11_OneEntryPerStep ==
    run_outcome = "returned" =>
        \A s \in Steps : results[s] # {} /\ writes[s] = 1

\* C12 (append-only results tier): within a run, a result once written under
\* a step's name is neither replaced nor removed by any later step of the
\* run, and no name is written more than once.
C12_AppendOnly ==
    [][previous' = previous =>
          \A s \in Steps :
              /\ results[s] # {} => results'[s] = results[s]
              /\ writes'[s] <= 1]_vars

\* A parallel run has written the results of two steps, one after the other.
C12_Witness ==
    /\ mode = "parallel"
    /\ \E s \in Steps : \E u \in Steps \ {s} :
          /\ writes[s] = 1 /\ writes[u] = 1
          /\ s \in plan[u]

\* The plan's graph has a cycle: some step rests on itself.
Cyclic == \E s \in Steps : s \in DependsOn(s)

\* C13 (cycle error at graph-build time): a cyclic plan never leaves graph
\* building: nothing is dispatched, evaluated or written, and the run ends
\* in the cycle error.
C13_CycleRejected ==
    Cyclic =>
        /\ sched \in {"idle", "cycle_error"}
        /\ dispatched = {} /\ done = {} /\ running = {}
        /\ task_queue = <<>> /\ results_queue = <<>>
        /\ results = NoResults
        /\ sched = "cycle_error" => run_outcome = "raised"

\* A cyclic plan in which one step has no producer to wait for was refused.
C13_Witness ==
    /\ Cyclic
    /\ sched = "cycle_error"
    /\ \E s \in Steps : plan[s] = {}


\* ------------------------------------------------- claims on evaluate
\* The same bundle, passed in the given shape with every input.
CallWith(shape, q) == [shape |-> shape, bundle |-> q, n |-> Len(inputs)]

\* C14 (call shapes): what evaluate returned for a bundle is what it returns
\* for the same values passed positionally in the order of the inputs, as a
\* dict, and as keyword arguments.
C14_CallShapesAgree ==
    op = "lookup" =>
        \A shape \in Shapes :
            evaluate(CallWith(shape, last_call.bundle), "ok") = result

\* A positional call with two values was served by a row of the table.
C14_Witness ==
    /\ op = "lookup"
    /\ last_call.shape = "positional"
    /\ Len(inputs) = 2
    /\ DOMAIN result = Range(outputs)
    /\ result # OutputsOf(1)

Tier(name) == tiers[CHOOSE i \in 1..Len(tiers) : tiers[i].key = name].items

HasTier(name) == \E i \in 1..Len(tiers) : tiers[i].key = name

\* C16 (results precedence): a name that both the results tier and the book
\* tier resolve is answered with the results tier's value, in whichever
\* order the two tiers were registered.
C16_ResultsTakePrecedence ==
    (/\ got # <<>>
     /\ HasTier("book") /\ HasTier("results")
     /\ Tier("book")[got.key] # Absent
     /\ Tier("results")[got.key] # Absent)
        => got.value = Tier("results")[got.key]


\* ------------------------------------------- claims on the interpolated table
\* Two fractions of equal value.
SameValue(a, b) == a.num * b.den = b.num * a.den

\* The stored keys, and the value at x of the line through the stored
\* points at keys a and b.
PointKeys == DOMAIN source.points

OnLine(a, b, x) ==
    [num |-> source.points[a] * (b - a)
                + (source.points[b] - source.points[a]) * (x - a),
     den |-> b - a]

Adjacent(a, b) ==
    /\ a \in PointKeys /\ b \in PointKeys /\ a < b
    /\ ~\E c \in PointKeys : a < c /\ c < b

\* C17 (interpolation and extrapolation): a query between two adjacent
\* stored keys gets the linear interpolation of their outputs; a query below
\* the least or above the greatest stored key gets the value of the line
\* through the two stored points at that end.
C17_LinearInterpolation ==
    \A k \in 1..Len(queries) :
        LET x == queries[k]
        IN  \A a, b \in PointKeys :
                (/\ Adjacent(a, b)
                 /\ \/ a < x /\ x < b
                    \/ x < a /\ \A c \in PointKeys : a <= c
                    \/ x > b /\ \A c \in PointKeys : c <= b)
                    => /\ interpolated[k].den # 0
                       /\ SameValue(interpolated[k], OnLine(a, b, x))

\* Points (18, 1.8) and (20, 2.0) and a further point: the query 19 was
\* answered 1.9, together with a query below the least stored key.
C17_Witness ==
    /\ Len(queries) = 2
    /\ 18 \in PointKeys /\ 20 \in PointKeys /\ 21 \in PointKeys
    /\ source.points[18] = 18 /\ source.points[20] = 20
    /\ queries[1] = 19 /\ queries[2] = 17
    /\ SameValue(interpolated[1], [num |-> 19, den |-> 1])
    /\ SameValue(interpolated[2], [num |-> 17, den |-> 1])


\* ------------------------------------------ claims on the SearchableDict
\* C18 (unique indices): after a construction or a register that succeeded,
\* every dataframe of the dict has a unique index; an operation that failed
\* raised 'Unable to set unique index for dataframe <name>'.
C18_IndicesUnique ==
    /\ bstatus = "built" => \A i \in 1..Len(book) : IsUnique(book[i].items)
    /\ bstatus \notin {"none", "new", "built"} =>
          \E key \in {"a", "b"} : bstatus = Unable(key)

\* The names of the index levels of a frame that carry a name, in order.
LevelNames(fr) == SelectSeq(fr.names, LAMBDA name : name # None)

\* C19 (joinable indices): in a dict built with joinable indices every name
\* that more than one dataframe carries, as a column or as an index level, is
\* an index level of each dataframe carrying it; the index of each dataframe
\* is its named levels as they were, followed by the names so added; and
\* set_joinable_indices applied once more changes nothing.
C19_JoinableIndices ==
    bstatus = "built" /\ joinable_indices =>
        /\ \A name \in SharedNames(book) : \A i \in 1..Len(book) :
              name \in AllNames(book[i].items) => name \in Range(book[i].items.names)
        /\ \A i \in 1..Len(book) :
              LET was == LevelNames(unique_indexed[i].items)
                  now == book[i].items.names
              IN  /\ Len(now) >= Len(was)
                  /\ SubSeq(now, 1, Len(was)) = was
                  /\ \A l \in (Len(was) + 1)..Len(now) :
                        /\ now[l] \in Range(unique_indexed[i].items.columns)
                        /\ now[l] \in SharedNames(book)
        /\ SetJoinableIndices(book) = book

\* A frame whose unique index was found on "v" got the shared "k" after it.
C19_Witness ==
    /\ bstatus = "built"
    /\ joinable_indices
    /\ Len(book) = 2
    /\ unique_indexed[1].items.names = <<"v">>
    /\ "k" \in Range(unique_indexed[1].items.columns)
    /\ book[1].items.names = <<"v", "k">>

\* A row of `later` that carries the row `row` of `earlier`: the same key on
\* the levels of `earlier`, the same values in its columns.
Carries(later_row, row, earlier) ==
    /\ SubSeq(later_row.idx, 1, Len(earlier.names)) = row.idx
    /\ \A c \in Range(earlier.columns) : later_row.rec[c] = row.rec[c]

\* The row has a row in the item on the levels of the same name.
HasRowIn(row, names, item) ==
    \E r \in Range(item.rows) :
        \A l \in 1..Len(names), m \in 1..Len(item.names) :
            names[l] = item.names[m] /\ names[l] # None => row.idx[l] = r.idx[m]

SharesLevel(names, item) ==
    (Range(names) \cap Range(item.names)) \ {None} # {}

\* C20 (get of a list across tables): the table returned has the requested
\* names as its columns, each once, in the order they were first asked;
\* with how = 'left' every row of the table joined so far is carried by the
\* next one, also when the next name has no row for its key; with
\* how = 'inner' the next table carries no row whose key has no row for the
\* next name, and carries those that have one.
C20_GetAcrossTables ==
    fetched # <<>> /\ fetched.kind = "table" /\ fetched.steps # <<>> =>
        LET columns == fetched.value.columns
            asked(c) == CHOOSE i \in 1..Len(fetched.key) :
                            /\ fetched.key[i] = c
                            /\ \A j \in 1..(i - 1) : fetched.key[j] # c
            steps == fetched.steps
        IN  /\ Range(columns) = Range(fetched.key)
            /\ \A i, j \in 1..Len(columns) :
                  i < j => asked(columns[i]) < asked(columns[j])
            /\ \A n \in 1..(Len(steps) - 1) :
                  LET k == columns[n + 1]
                      item == GetOne(book, k)
                  IN  /\ \A later_row \in Range(steps[n + 1].rows) :
                            \E row \in Range(steps[n].rows) :
                                Carries(later_row, row, steps[n])
                      /\ fetched.how = "left" =>
                            \A row \in Range(steps[n].rows) :
                                \E later_row \in Range(steps[n + 1].rows) :
                                    Carries(later_row, row, steps[n])
                      /\ fetched.how = "inner" =>
                            /\ \A later_row \in Range(steps[n + 1].rows) :
                                  later_row.rec[k] # MissingKey
                            /\ SharesLevel(steps[n].names, item) =>
                                  \A row \in Range(steps[n].rows) :
                                      HasRowIn(row, steps[n].names, item) <=>
                                          \E later_row \in Range(steps[n + 1].rows) :
                                              Carries(later_row, row, steps[n])

\* A left join across two tables kept a key that has no row for "w".
C20_Witness ==
    /\ fetched # <<>>
    /\ fetched.kind = "table"
    /\ fetched.key = <<"v", "w">>
    /\ fetched.how = "left"
    /\ Len(fetched.steps) = 2
    /\ fetched.value.columns = <<"v", "w">>
    /\ \E row \in Range(fetched.value.rows) :
          row.rec["v"] # MissingKey /\ row.rec["w"] = MissingKey

\* ------------------------------------------ claims on the parallel run
\* The step tasks waiting in a queue.
TasksIn(queue) == {i \in 1..Len(queue) : queue[i].kind = "task"}

C22_ParallelRunEnds ==
    (mode = "parallel" /\ sched = "active") ~>
        /\ sched \in {"complete", "failed"}
        /\ exited = NumWorkers
        /\ running = {}
        /\ task_queue = <<>>

\* A parallel run ended in failure with the whole pool exited.
C22_Witness ==
    /\ mode = "parallel"
    /\ sched = "failed"
    /\ exited = NumWorkers
    /\ running = {}
    /\ task_queue = <<>>

\* C23 (single writer, stable snapshot): a step that writes the results tier
\* is the orchestrator's (it takes a value off the results queue and touches
\* no worker); the session a running task reads is the results tier as it
\* was at some earlier time, holding the results of all the step's
\* producers; and it stays the same for as long as the task runs, whatever
\* is merged meanwhile.
C23_SnapshotIsolation ==
    [][(mode = "parallel" /\ sched' # "idle") =>
          /\ results' # results =>
                /\ results_queue # <<>>
                /\ results_queue' = Tail(results_queue)
                /\ Head(results_queue).kind = "value"
                /\ running' = running
                /\ task_queue' = task_queue
          /\ \A task \in running :
                /\ \A u \in Steps : Seen(task)[u] \in {{}, results[u]}
                /\ \A u \in plan[task.name] : Seen(task)[u] = results[u]
                /\ task \in running' => Seen(task)' = Seen(task)]_vars

\* A task is running on a snapshot that a merge has since left behind.
C23_Witness ==
    /\ mode = "parallel"
    /\ \E task \in running :
          /\ Seen(task) # results
          /\ plan[task.name] # {}

\* ------------------------------------------ claims on the batch evaluate
\* The rows a mask keeps, and the first of them: the first row of the whole
\* table that matches a bundle, wildcard or not.
Hits(mask) == {i \in DOMAIN mask : mask[i]}
FirstMatch(mask) == CHOOSE i \in Hits(mask) : \A j \in Hits(mask) : i <= j

\* C24 (fallback of the bulk lookup): when the bulk lookup raised, the batch
\* call still returns a frame with one row per input row, and each row is the
\* outcome of matching that input row against the entire table: the outputs
\* of the first row of the table that matches it, wildcard rows included, and
\* null outputs when no row does.
C24_BulkFailureFallsBack ==
    (op = "batch" /\ path = "match") =>
        /\ Len(frame.rows) = Len(input_table)
        /\ \A k \in 1..Len(input_table) :
              LET mask == MatchingRowsFilter(table, input_table[k])
              IN  IF Hits(mask) # {}
                  THEN /\ Range(outputs) \subseteq frame.columns
                       /\ \A c \in Range(outputs) :
                             frame.rows[k].rec[c] = table[FirstMatch(mask)][c]
                  ELSE \A c \in Range(outputs) \cap frame.columns :
                             IsNa(frame.rows[k].rec[c])

\* The bulk lookup raised on a batch of two rows; the second row was served
\* by a row of the table that carries a wildcard.
C24_Witness ==
    /\ op = "batch"
    /\ path = "match"
    /\ Len(input_table) >= 2
    /\ GenericMatches(input_table[2]) # {}
    /\ SpecificMatches(input_table[2]) = {}
    /\ \E i \in GenericMatches(input_table[2]) :
          frame.rows[2].rec["factor"] = table[i].factor

\* C25 (the two sub-tables): the rows the batch algorithm keeps for the bulk
\* lookup and the rows it keeps for the fallback are, together, the rows of
\* the table, each once; a row is among the fallback rows exactly when one of
\* its key dimensions at least carries the wildcard, and among the bulk rows
\* exactly when none does.
C25_SubTablesPartition ==
    status = "primed" =>
        /\ Len(LookupTableNonwildcard) + Len(LookupTableWildcard) = Len(table)
        /\ \A i \in 1..Len(table) :
              /\ wildcard_markers[i] <=> HasWildcard(table[i])
              /\ HasWildcard(table[i]) =>
                    \E j \in 1..Len(LookupTableWildcard) :
                        LookupTableWildcard[j] = table[i]
              /\ ~HasWildcard(table[i]) =>
                    \E j \in 1..Len(LookupTableNonwildcard) :
                        LookupTableNonwildcard[j] = table[i]
        /\ \A j \in 1..Len(LookupTableNonwildcard) :
              ~HasWildcard(LookupTableNonwildcard[j])

\* C29 (batch and single lookup agree): for each input row of a batch, the
\* outputs the batch evaluate returns are those the single-bundle lookup of
\* that row's values against the whole table returns; two nulls agree, and a
\* lookup that names no output reads null.
C29_BatchEqualsLookup ==
    op = "batch" =>
        /\ Len(frame.rows) = Len(input_table)
        /\ \A k \in 1..Len(input_table) : \A c \in Range(outputs) :
              LET single == Lookup(table, input_table[k])
                  of_lookup == IF c \in DOMAIN single THEN single[c] ELSE None
                  of_batch == IF c \in frame.columns THEN frame.rows[k].rec[c] ELSE NaN
              IN  \/ IsNa(of_lookup) /\ IsNa(of_batch)
                  \/ of_lookup = of_batch

\* ------------------------------------------ claims on the joins of get
\* The key of a table or column: the names of its index levels.
KeyOf(item) == Range(item.names) \ {None}

\* C28 (keys must nest): a list of names resolved by successive joins gives
\* a joined table only if the key of each name joined is a subset or a
\* superset of the key of the table joined so far; a request with a name
\* whose key is neither returns no table.
C28_KeysMustNest ==
    (fetched # <<>> /\ fetched.kind = "table" /\ fetched.steps # <<>>) =>
        \A n \in 1..(Len(fetched.steps) - 1) :
            LET so_far == KeyOf(fetched.steps[n])
                joining == KeyOf(GetOne(book, fetched.value.columns[n + 1]))
            IN  joining \subseteq so_far \/ so_far \subseteq joining

\* ------------------------------------------------------------ claims on the AccessLogger
\* A chain of named accesses only.
NamedChain == chain # <<>> /\ \A i \in 1..Len(chain) : chain[i] \in PlainKeys

\* C26: for a logger built with depth d, a chain of k <= d named accesses
\* from the root has recorded the full path of length k and has returned a
\* new child logger rooted at that path; an access beyond depth d has recorded
\* nothing and has returned the same logger.
C26_ChainsWithinDepth ==
    (NamedChain /\ probe_op.kind = "access") =>
        IF Len(chain) <= configured
        THEN /\ chain \in accessed
             /\ held.root = chain
             /\ returned = "child"
        ELSE /\ chain \notin accessed
             /\ returned = "self"

\* C27: an arithmetic, comparison, iteration or call operation on a logger,
\* the logger being either operand, leaves the recorded paths as they were and
\* gives back the logger or a boolean, and does not raise.
C27_OperationsAreInert ==
    [][\A o \in Arithmetic \cup Unary \cup Comparison \cup Protocol, side \in Sides :
          Operate(o, side) =>
              /\ accessed' = accessed
              /\ returned' \in {"self", "True", "False"}]_vars

\* C30: a for loop over a logger ends: the loop that started iterating
\* eventually finds the logger exhausted.
C30_IterationEnds == (looping = "iterating") ~> (looping = "exhausted")

====
